---- MODULE Spec2Model ----
(***************************************************************************)
(* Fellow Stagg EKG Pro kettle: the 17-byte configuration codec, the BLE   *)
(* session (StaggEKGPro_Config), the Home Assistant coordinator            *)
(* (StaggEKGProCoordinator) and the smart turn-on sequence.                *)
(*                                                                         *)
(* Blobs are sequences of 17 bytes; byte i of the source is element i+1.   *)
(* Temperatures handed to setters are in tenths of a degree Celsius, so    *)
(* that int(temp * 2) truncates as it does in the source.                  *)
(***************************************************************************)
EXTENDS Integers, Sequences, FiniteSets, TLC

\* ------------------------------------------------------------------ bounds
\* direct calls made on the session by the library user (SpecSession)
MaxCalls == 2
\* setter calls made through async_write_kettle (Spec)
MaxSetterCalls == 1
\* unsolicited notifications pushed by the device
MaxNotifs == 1
\* transport calls that fail in one behaviour of the integration
MaxFaults == 1
\* transport calls that fail in one behaviour of direct use
MaxUserFaults == 2
\* smart turn-on sequences started in one behaviour
MaxSmart == 1

\* ------------------------------------------------------------ byte helpers
NoData == <<>>

BlobLen == 17

Byte == 0..255

B(d, i) == d[i + 1]

SetB(d, i, v) == [d EXCEPT ![i + 1] = v]

Pow2(k) == 2 ^ k

Bit(x, k) == (x \div Pow2(k)) % 2

\* x | (1 << k)
OrBit(x, k) == IF Bit(x, k) = 1 THEN x ELSE x + Pow2(k)

\* x & ~(1 << k)
ClearBit(x, k) == IF Bit(x, k) = 1 THEN x - Pow2(k) ELSE x

\* max(lo, min(hi, x))
Clamp(lo, hi, x) == IF x < lo THEN lo ELSE IF x > hi THEN hi ELSE x

\* int(temp_celsius) * 2 : truncates before doubling
TempByte_truncfirst(t10) == (t10 \div 10) * 2

\* int(temp_celsius * 2) for a temperature given in tenths of a degree
TempByte(t10) == (t10 * 2) \div 10

\* data[i] / 2.0, in tenths of a degree
HalfDegrees(b) == b * 5

\* Python round(x / 30) * 30 : round half to even
Round30(a) ==
    LET q == a \div 30
        r == a % 30
    IN  IF r < 15 THEN q * 30
        ELSE IF r > 15 THEN (q + 1) * 30
        ELSE IF q % 2 = 0 THEN q * 30 ELSE (q + 1) * 30

\* ------------------------------------------------------------- the decoders
HasState(sd) == Len(sd) >= BlobLen

\* data[4] // 2 : the half degree dropped
get_target_temperature_whole(sd) == (B(sd, 4) \div 2) * 10

get_target_temperature(sd) == HalfDegrees(B(sd, 4))

get_units(sd) == IF Bit(B(sd, 1), 1) = 1 THEN "celsius" ELSE "fahrenheit"

get_pre_boil(sd) == Bit(B(sd, 1), 3) = 1

get_altitude(sd) == Round30((B(sd, 3) % 128) * 256 + B(sd, 2))

get_clock_time(sd) == <<B(sd, 11), B(sd, 10)>>

get_clock_mode(sd) ==
    IF B(sd, 12) = 0 THEN "off"
    ELSE IF B(sd, 12) = 1 THEN "digital"
    ELSE IF B(sd, 12) = 2 THEN "analog"
    ELSE "unknown"

get_hold_time(sd) == B(sd, 13)

get_chime_volume(sd) == B(sd, 14)

\* Language(byte15), or -1 for None
get_language(sd) == IF B(sd, 15) \in 0..4 THEN B(sd, 15) ELSE -1

get_schedule_mode(sd) ==
    IF ~HasState(sd) THEN "None"
    ELSE IF Bit(B(sd, 0), 3) = 0 THEN "off"
    ELSE IF Bit(B(sd, 16), 3) = 1 THEN "once" ELSE "daily"

get_schedule(sd) ==
    IF ~HasState(sd) THEN
        [schedule_mode |-> "None", schedule_enabled |-> FALSE,
         schedule_temperature |-> -1, schedule_hour |-> -1, schedule_minute |-> -1]
    ELSE IF Bit(B(sd, 0), 3) = 0 THEN
        [schedule_mode |-> "off", schedule_enabled |-> FALSE,
         schedule_temperature |-> -1, schedule_hour |-> -1, schedule_minute |-> -1]
    ELSE
        [schedule_mode |-> IF Bit(B(sd, 16), 3) = 1 THEN "once" ELSE "daily",
         schedule_enabled |-> TRUE,
         schedule_temperature |-> HalfDegrees(B(sd, 6)),
         schedule_hour |-> B(sd, 9),
         schedule_minute |-> B(sd, 8)]

\* ------------------------------------------------------------- the encoders
\* Each returns new_data as the setter hands it to _write_state.
set_target_temperature(sd, t10) == SetB(sd, 4, TempByte(Clamp(0, 1000, t10)))

\* set_units storing the enum's value (0x17 / 0x15) as the whole of byte 1
set_units_wholebyte(sd, units) ==
    IF units = "CELSIUS" THEN SetB(sd, 1, 23) ELSE SetB(sd, 1, 21)

\* new_data[1] |= 0x02 for Celsius, &= ~0x02 for Fahrenheit
set_units(sd, units) ==
    IF units = "CELSIUS" THEN SetB(sd, 1, OrBit(B(sd, 1), 1))
    ELSE SetB(sd, 1, ClearBit(B(sd, 1), 1))

set_clock_mode(sd, mode) == SetB(sd, 12, mode)

\* mode = -1 stands for None
set_clock_time(sd, hours, minutes, mode) ==
    LET d == SetB(SetB(sd, 10, minutes), 11, hours)
    IN  IF mode # -1 THEN SetB(d, 12, mode) ELSE d

set_chime_volume(sd, volume) == SetB(sd, 14, Clamp(0, 10, volume))

set_pre_boil(sd, enabled) ==
    IF enabled THEN SetB(sd, 1, OrBit(B(sd, 1), 3))
    ELSE SetB(sd, 1, ClearBit(B(sd, 1), 3))

set_hold_time(sd, minutes) == SetB(sd, 13, Clamp(0, 60, minutes))

\* set_altitude quantising with int(altitude_meters / 30) instead of round
set_altitude_floor(sd, altitude_meters) ==
    LET quantized == (Clamp(0, 3000, altitude_meters) \div 30) * 30
        byte2 == quantized % 256
        byte3 == 128 + ((quantized \div 256) % 128)
    IN  SetB(SetB(sd, 2, byte2), 3, byte3)

set_altitude(sd, altitude_meters) ==
    LET quantized == Round30(Clamp(0, 3000, altitude_meters))
        byte2 == quantized % 256
        byte3 == 128 + ((quantized \div 256) % 128)
    IN  SetB(SetB(sd, 2, byte2), 3, byte3)

set_language(sd, language) == SetB(sd, 15, language)

\* the OFF encoding that leaves the schedule temperature in place
ScheduleOff_keep6(sd) ==
    SetB(SetB(SetB(sd, 0, ClearBit(B(sd, 0), 3)), 8, 0), 9, 0)

\* the OFF encoding of set_schedule
ScheduleOff(sd) ==
    SetB(SetB(SetB(SetB(sd, 0, ClearBit(B(sd, 0), 3)), 6, 192), 8, 0), 9, 0)

\* step 1 of the two-step mode change: temp_data
ScheduleDisableStep(sd) == SetB(ScheduleOff(sd), 16, (B(sd, 16) + 1) % 256)

\* the value assigned to new_data[16] in step 2, before the range check
ScheduleModeByte(sd, mode) ==
    IF mode = "ONCE" THEN OrBit(B(sd, 16), 3) + 1
    ELSE ClearBit(B(sd, 16), 3) + 1

\* step 2: new_data (only defined when ScheduleModeByte is a byte)
ScheduleEnableStep(sd, mode, hour, minute, t10) ==
    SetB(SetB(SetB(SetB(SetB(sd,
        0, OrBit(B(sd, 0), 3)),
        6, TempByte(Clamp(0, 1000, t10))),
        8, minute),
        9, hour),
        16, ScheduleModeByte(sd, mode))

needs_disable(sd, mode) ==
    /\ get_schedule_mode(sd) \in {"once", "daily"}
    /\ get_schedule_mode(sd) # (IF mode = "ONCE" THEN "once" ELSE "daily")

\* _write_state incrementing the byte the setter left in new_data
write_state_double(new_data, cnt) == SetB(new_data, 16, (B(new_data, 16) + 1) % 256)

\* _write_state: the counter byte actually put on the wire
write_state(new_data, cnt) == SetB(new_data, 16, (cnt + 1) % 256)


\* ------------------------------------------------------------------- state
VARIABLES
    dev,          \* the device's characteristic value
    dev0,         \* the value the device had when the session was constructed
    link,         \* self.client: "none", or the link's state "open" / "closed"
    notify,       \* start_notify done on the current client
    state_data,   \* self._state_data (NoData for None)
    counter,      \* self._counter
    connected,    \* coordinator._connected
    retry_count,  \* coordinator._retry_count
    lock,         \* holder of coordinator._lock, or "free"
    data,         \* coordinator.data as the blob it was decoded from
    pc,           \* where each task stands
    op,           \* the session call each task is making
    stage,        \* turn_on_smart: "trigger" or "restore"
    bk,           \* turn_on_smart: backup_sched
    pend,         \* new_data handed to write_gatt_char
    pre,          \* the cache the current setter call started from
    writes,       \* the blobs the current setter call has put on the wire
    res,          \* outcome of each task's last call
    is_on,        \* the entities' optimistic indicator
    base,         \* counter at the last read or notification
    nw,           \* successful writes since then
    ncalls,       \* direct calls made so far
    nset,         \* async_write_kettle calls made so far
    nsmart,       \* smart turn-on sequences started so far
    nnotif,       \* notifications pushed so far
    nfail,        \* transport calls that have failed so far
    result,       \* what the last async_write_kettle call returned (NoData
                  \* for None)
    orphan        \* tasks whose write is in flight on a client object that
                  \* connect() has since replaced while its link was up

sessvars == <<dev, link, notify, state_data, counter, base, nw, orphan>>

kvars == <<pc, res, pend, writes, pre, lock, connected, retry_count, data, is_on,
          result>>

callvars == <<op, stage, bk, ncalls, nset, nsmart, nnotif>>

vars == <<dev, dev0, link, notify, state_data, counter, connected, retry_count,
          lock, data, pc, op, stage, bk, pend, pre, writes, res, is_on,
          base, nw, ncalls, nset, nsmart, nnotif, nfail, orphan, result>>

Tasks == {"poll", "setter", "shutdown", "switch", "heater", "user"}

SmartTasks == {"switch", "heater"}

\* positions at which a transport call is awaited
IOpcs == {"c_link", "c_notify", "c_read", "read", "disc",
          "s_refresh", "s_write1", "s_write", "t_refresh"}

WritePcs == {"s_write1", "s_write"}

InFlight(t) == pc[t] \in IOpcs

NoOp == [name |-> "", m |-> "", a |-> 0, b |-> 0, c |-> 0, rt |-> FALSE]

NoBackup == [schedule_mode |-> "None", schedule_enabled |-> FALSE,
             schedule_temperature |-> -1, schedule_hour |-> -1, schedule_minute |-> -1]

MkOp(n, m, a, b, c) == [name |-> n, m |-> m, a |-> a, b |-> b, c |-> c, rt |-> FALSE]

\* ---------------------------------------------------------- setter planning
\* What a setter does between its cache check and its first transport call:
\* err is the exception it raises, two says that new_data is the disable
\* step of a mode change, blob is new_data.
PlanOk(blob) == [err |-> "", two |-> FALSE, blob |-> blob]

PlanErr(e) == [err |-> e, two |-> FALSE, blob |-> NoData]

EnablePlan(o, sd) ==
    IF ScheduleModeByte(sd, o.m) > 255 THEN PlanErr("ValueError")
    ELSE PlanOk(ScheduleEnableStep(sd, o.m, o.a, o.b, o.c))

set_schedule(o, sd) ==
    IF o.m = "OFF" THEN PlanOk(ScheduleOff(sd))
    ELSE IF ~(0 <= o.a /\ o.a <= 23) THEN PlanErr("ValueError")
    ELSE IF ~(0 <= o.b /\ o.b <= 59) THEN PlanErr("ValueError")
    ELSE IF needs_disable(sd, o.m)
         THEN [err |-> "", two |-> TRUE, blob |-> ScheduleDisableStep(sd)]
    ELSE EnablePlan(o, sd)

SetterPlan(o, sd) ==
    CASE o.name = "set_target_temperature" -> PlanOk(set_target_temperature(sd, o.c))
      [] o.name = "set_units" -> PlanOk(set_units(sd, o.m))
      [] o.name = "set_clock_mode" -> PlanOk(set_clock_mode(sd, o.a))
      [] o.name = "set_clock_time" ->
            IF ~(0 <= o.a /\ o.a <= 23) THEN PlanErr("ValueError")
            ELSE IF ~(0 <= o.b /\ o.b <= 59) THEN PlanErr("ValueError")
            ELSE PlanOk(set_clock_time(sd, o.a, o.b, o.c))
      [] o.name = "set_chime_volume" -> PlanOk(set_chime_volume(sd, o.a))
      [] o.name = "set_pre_boil" -> PlanOk(set_pre_boil(sd, o.a = 1))
      [] o.name = "set_hold_time" -> PlanOk(set_hold_time(sd, o.a))
      [] o.name = "set_altitude" -> PlanOk(set_altitude(sd, o.a))
      [] o.name = "set_language" ->
            IF o.a \notin 0..4 THEN PlanErr("ValueError")
            ELSE PlanOk(set_language(sd, o.a))
      [] o.name = "set_schedule" -> set_schedule(o, sd)

\* ------------------------------------------------------------ continuations
\* The part of a handler that runs without suspending is computed as a record
\* of the values it leaves in kvars for task t.
K0(t) == [pc |-> pc[t], res |-> res[t], pend |-> pend[t], writes |-> writes[t],
          pre |-> pre[t], lock |-> lock, connected |-> connected,
          retry_count |-> retry_count, data |-> data, is_on |-> is_on[t],
          result |-> result]

Apply(t, k) ==
    /\ pc' = [pc EXCEPT ![t] = k.pc]
    /\ res' = [res EXCEPT ![t] = k.res]
    /\ pend' = [pend EXCEPT ![t] = k.pend]
    /\ writes' = [writes EXCEPT ![t] = k.writes]
    /\ pre' = [pre EXCEPT ![t] = k.pre]
    /\ lock' = k.lock
    /\ connected' = k.connected
    /\ retry_count' = k.retry_count
    /\ data' = k.data
    /\ is_on' = [is_on EXCEPT ![t] = k.is_on]
    /\ result' = k.result

\* turn_on_smart logging the exception of a step and going on to the wait
Raise_swallowed(t, k, e, lk) ==
    CASE t = "user" ->
            [k EXCEPT !.pc = "idle", !.res = e, !.pend = NoData]
      [] t \in SmartTasks ->
            [k EXCEPT !.pc = "dwell", !.res = e, !.pend = NoData]
      [] t = "setter" ->
            IF lk = "open"
            THEN [k EXCEPT !.pc = "disc", !.res = e, !.pend = NoData,
                           !.connected = FALSE]
            ELSE [k EXCEPT !.pc = "idle", !.res = e, !.pend = NoData,
                           !.connected = FALSE, !.lock = "free"]
      [] t = "poll" ->
            IF lk = "open"
            THEN [k EXCEPT !.pc = "disc", !.res = "UpdateFailed", !.pend = NoData,
                           !.connected = FALSE, !.retry_count = @ + 1]
            ELSE [k EXCEPT !.pc = "idle", !.res = "UpdateFailed", !.pend = NoData,
                           !.connected = FALSE, !.retry_count = @ + 1,
                           !.lock = "free"]

\* An exception e leaves the session call that task t made; lk is the link.
Raise(t, k, e, lk) ==
    CASE t = "user" ->
            [k EXCEPT !.pc = "idle", !.res = e, !.pend = NoData]
      [] t \in SmartTasks ->
            [k EXCEPT !.pc = "failed", !.res = e, !.pend = NoData, !.is_on = FALSE]
      [] t = "setter" ->
            IF lk = "open"
            THEN [k EXCEPT !.pc = "disc", !.res = e, !.pend = NoData,
                           !.connected = FALSE]
            ELSE [k EXCEPT !.pc = "idle", !.res = e, !.pend = NoData,
                           !.connected = FALSE, !.lock = "free"]
      [] t = "poll" ->
            IF lk = "open"
            THEN [k EXCEPT !.pc = "disc", !.res = "UpdateFailed", !.pend = NoData,
                           !.connected = FALSE, !.retry_count = @ + 1]
            ELSE [k EXCEPT !.pc = "idle", !.res = "UpdateFailed", !.pend = NoData,
                           !.connected = FALSE, !.retry_count = @ + 1,
                           !.lock = "free"]

\* _write_state up to its await
WriteState(t, k, blob, cnt, lk, wpc) ==
    IF lk # "open" THEN Raise(t, k, "NotConnected", lk)
    ELSE [k EXCEPT !.pc = wpc,
                   !.pend = write_state(blob, cnt),
                   !.writes = Append(@, write_state(blob, cnt))]

\* a setter from the point where the cache sd is known to exist
SetterBody(t, k, o, sd, cnt, lk) ==
    LET p == SetterPlan(o, sd)
        k1 == [k EXCEPT !.pre = sd]
    IN  IF p.err # "" THEN Raise(t, k1, p.err, lk)
        ELSE WriteState(t, k1, p.blob, cnt, lk, IF p.two THEN "s_write1" ELSE "s_write")

\* a setter that builds a blob from scratch when it has no cache
SetterEnter_scratch(t, k, o, sd, cnt, lk) ==
    LET k1 == [k EXCEPT !.writes = <<>>, !.pre = NoData]
    IN  IF sd = NoData
        THEN WriteState(t, k1, [i \in 1..BlobLen |-> 0], cnt, lk, "s_write")
        ELSE SetterBody(t, k1, o, sd, cnt, lk)

\* a setter from its first line
SetterEnter(t, k, o, sd, cnt, lk) ==
    LET k1 == [k EXCEPT !.writes = <<>>, !.pre = NoData]
    IN  IF sd = NoData
        THEN IF lk # "open" THEN Raise(t, k1, "NotConnected", lk)
             ELSE [k1 EXCEPT !.pc = "s_refresh"]
        ELSE SetterBody(t, k1, o, sd, cnt, lk)

\* async_write_kettle returning right after write_func, without the read
SetterReturn_noread(t, k, lk) ==
    IF stage[t] = "trigger" THEN [k EXCEPT !.pc = "dwell", !.pend = NoData]
    ELSE IF stage[t] = "restore"
         THEN [k EXCEPT !.pc = IF t = "user" THEN "idle" ELSE "done",
                        !.res = "ok", !.pend = NoData]
    ELSE IF t = "setter"
         THEN [k EXCEPT !.pc = "idle", !.res = "ok", !.pend = NoData, !.lock = "free"]
    ELSE [k EXCEPT !.pc = "idle", !.res = "ok", !.pend = NoData]

\* the setter returned normally to whoever called it
SetterReturn(t, k, lk) ==
    IF stage[t] = "trigger" THEN [k EXCEPT !.pc = "dwell", !.pend = NoData]
    ELSE IF stage[t] = "restore"
         THEN [k EXCEPT !.pc = IF t = "user" THEN "idle" ELSE "done",
                        !.res = "ok", !.pend = NoData]
    ELSE IF t = "setter"
         THEN IF lk # "open" THEN Raise(t, k, "NotConnected", lk)
              ELSE [k EXCEPT !.pc = "read", !.pend = NoData]
    ELSE [k EXCEPT !.pc = "idle", !.res = "ok", !.pend = NoData]


\* ------------------------------------------------------------- the device
\* bytes 5 and 7 are not understood; the device reports some fixed values
MkBlob(b0, b1, b2, b3, b4, b6, b8, b9, b10, b11, b12, b13, b14, b15, b16) ==
    <<b0, b1, b2, b3, b4, 165, b6, 90, b8, b9, b10, b11, b12, b13, b14, b15, b16>>

\* schedule off, counter c
OffBlob(c) == MkBlob(1, 23, 90, 128, 180, 192, 0, 0, 59, 23, 1, 15, 5, 0, c)

\* schedule at 07:00 / 85 C, mode given by bit 3 of the counter c
OnBlob(c) == MkBlob(9, 23, 90, 128, 180, 170, 0, 7, 59, 23, 1, 15, 5, 0, c)

\* what the device may hold when the integration is set up
InitBlobs == {OffBlob(5), OnBlob(6)}

\* what the device may hold when the library is used directly
SessionBlobs ==
    {OffBlob(c) : c \in {5, 247, 255}} \cup {OnBlob(c) : c \in {0, 14, 246, 254, 255}}

\* a setting changed on the kettle's own menu
MenuChange(d) == SetB(d, 4, IF B(d, 4) = 180 THEN 170 ELSE 180)

\* ------------------------------------------------------- session transport
ReadOK ==
    /\ state_data' = dev
    /\ counter' = B(dev, 16)
    /\ base' = B(dev, 16)
    /\ nw' = 0
    /\ UNCHANGED <<dev, link, notify, orphan>>

\* the client object task t's write was issued on still has its link
LinkUp(t) == link = "open" \/ t \in orphan

WriteOK(t) ==
    /\ LinkUp(t)
    /\ orphan' = orphan \ {t}
    /\ dev' = pend[t]
    /\ state_data' = pend[t]
    /\ counter' = B(pend[t], 16)
    /\ nw' = nw + 1
    /\ UNCHANGED <<link, notify, base>>

\* a transport call raises
Fault(t) ==
    /\ nfail < (IF t = "user" THEN MaxUserFaults ELSE MaxFaults)
    /\ nfail' = nfail + 1

\* a failed write that keeps the counter it put into the blob
WriteFault_counted(t) ==
    /\ \/ Fault(t)
       \/ ~LinkUp(t) /\ UNCHANGED nfail
    /\ dev' = dev /\ link' = link /\ notify' = notify
    /\ state_data' = state_data /\ counter' = B(pend[t], 16)
    /\ base' = base /\ nw' = nw
    /\ orphan' = orphan \ {t}

\* a write raises: a transport fault, or the link it was issued on is gone
WriteFault(t) ==
    /\ \/ Fault(t)
       \/ ~LinkUp(t) /\ UNCHANGED nfail
    /\ dev' = dev /\ link' = link /\ notify' = notify
    /\ state_data' = state_data /\ counter' = counter
    /\ base' = base /\ nw' = nw
    /\ orphan' = orphan \ {t}

\* connect(): a new client object, then client.connect(); the object it
\* replaces is not closed, and writes in flight on it go on
ConnectBegin ==
    /\ link' = "closed"
    /\ notify' = FALSE
    /\ orphan' = IF link = "open"
                 THEN orphan \cup {t \in Tasks : pc[t] \in WritePcs}
                 ELSE orphan
    /\ UNCHANGED <<dev, state_data, counter, base, nw>>

\* a failed connect() in a poll that leaves _retry_count as it was
ConnectFailed_nocount(t, k, lk) ==
    CASE t = "poll" ->
            [k EXCEPT !.pc = "idle", !.res = "UpdateFailed", !.lock = "free",
                      !.connected = FALSE]
      [] t = "setter" -> Raise(t, k, "UpdateFailed", lk)
      [] OTHER -> [k EXCEPT !.pc = "idle", !.res = "False"]

\* connect() returned False to task t
ConnectFailed(t, k, lk) ==
    CASE t = "poll" ->
            [k EXCEPT !.pc = "idle", !.res = "UpdateFailed", !.lock = "free",
                      !.connected = FALSE, !.retry_count = @ + 1]
      [] t = "setter" -> Raise(t, k, "UpdateFailed", lk)
      [] OTHER -> [k EXCEPT !.pc = "idle", !.res = "False"]

\* connect() returned True to task t; sd, cnt: the cache it has filled
ConnectOK(t, k, sd, cnt) ==
    CASE t = "poll" ->
            [k EXCEPT !.pc = "read", !.connected = TRUE, !.retry_count = 0]
      [] t = "setter" ->
            SetterEnter(t, [k EXCEPT !.connected = TRUE], op[t], sd, cnt, "open")
      [] OTHER -> [k EXCEPT !.pc = "idle", !.res = "True"]

\* client.connect() is over: the link is up, or the call raised or left
\* is_connected false (either way connect() returns False)
ConnectLinkDone(t) ==
    /\ pc[t] = "c_link"
    /\ \/ /\ link' = "open"
          /\ UNCHANGED nfail
          /\ UNCHANGED <<dev, notify, state_data, counter, base, nw, orphan>>
          /\ Apply(t, [K0(t) EXCEPT !.pc = "c_notify"])
       \/ /\ Fault(t)
          /\ UNCHANGED sessvars
          /\ Apply(t, ConnectFailed(t, K0(t), link))
    /\ UNCHANGED <<dev0, callvars>>

\* a connect() that returns True once start_notify is done, without a read
ConnectNotifyDone_noread(t) ==
    /\ pc[t] = "c_notify"
    /\ \/ /\ notify' = TRUE
          /\ UNCHANGED nfail
          /\ UNCHANGED <<dev, link, state_data, counter, base, nw, orphan>>
          /\ Apply(t, ConnectOK(t, K0(t), state_data, counter))
       \/ /\ Fault(t)
          /\ UNCHANGED sessvars
          /\ Apply(t, ConnectFailed(t, K0(t), link))
    /\ UNCHANGED <<dev0, callvars>>

\* start_notify is over
ConnectNotifyDone(t) ==
    /\ pc[t] = "c_notify"
    /\ \/ /\ notify' = TRUE
          /\ UNCHANGED nfail
          /\ UNCHANGED <<dev, link, state_data, counter, base, nw, orphan>>
          /\ Apply(t, [K0(t) EXCEPT !.pc = "c_read"])
       \/ /\ Fault(t)
          /\ UNCHANGED sessvars
          /\ Apply(t, ConnectFailed(t, K0(t), link))
    /\ UNCHANGED <<dev0, callvars>>

ConnectReadDone(t) ==
    /\ pc[t] = "c_read"
    /\ \/ /\ ReadOK
          /\ UNCHANGED nfail
          /\ Apply(t, ConnectOK(t, K0(t), dev, B(dev, 16)))
       \/ /\ Fault(t)
          /\ UNCHANGED sessvars
          /\ Apply(t, ConnectFailed(t, K0(t), link))
    /\ UNCHANGED <<dev0, callvars>>

\* a refresh_state that is tried again at once when it raises
ReadDone_retry(t) ==
    /\ pc[t] = "read"
    /\ \/ /\ ReadOK
          /\ UNCHANGED nfail
          /\ Apply(t, CASE t = "poll" ->
                            [K0(t) EXCEPT !.pc = "idle", !.res = "ok", !.data = dev,
                                          !.retry_count = 0, !.lock = "free"]
                        [] t = "setter" ->
                            [K0(t) EXCEPT !.pc = "idle", !.res = "ok", !.data = dev,
                                          !.lock = "free"]
                        [] OTHER -> [K0(t) EXCEPT !.pc = "idle", !.res = "ok"])
       \/ /\ Fault(t)
          /\ UNCHANGED sessvars
          /\ Apply(t, [K0(t) EXCEPT !.res = "ReadError"])
    /\ UNCHANGED <<dev0, callvars>>

\* what a setter returns to async_write_kettle: the setters have no return
\* statement that carries a value
SetterResult == NoData

\* the refresh_state that ends a poll, a write-through call or a direct call;
\* async_write_kettle then publishes the state and returns write_func's result
ReadDone(t) ==
    /\ pc[t] = "read"
    /\ \/ /\ ReadOK
          /\ UNCHANGED nfail
          /\ Apply(t, CASE t = "poll" ->
                            [K0(t) EXCEPT !.pc = "idle", !.res = "ok", !.data = dev,
                                          !.retry_count = 0, !.lock = "free"]
                        [] t = "setter" ->
                            [K0(t) EXCEPT !.pc = "idle", !.res = "ok", !.data = dev,
                                          !.lock = "free", !.result = SetterResult]
                        [] OTHER -> [K0(t) EXCEPT !.pc = "idle", !.res = "ok"])
       \/ /\ Fault(t)
          /\ UNCHANGED sessvars
          /\ Apply(t, Raise(t, K0(t), "ReadError", link))
    /\ UNCHANGED <<dev0, callvars>>

\* disconnect() awaited by an error handler, by async_shutdown or directly
DisconnectDone(t) ==
    /\ pc[t] = "disc"
    /\ \/ /\ link' = "closed"
          /\ notify' = FALSE
          /\ UNCHANGED nfail
       \/ /\ Fault(t)
          /\ UNCHANGED <<link, notify>>
    /\ UNCHANGED <<dev, state_data, counter, base, nw, orphan>>
    /\ Apply(t, CASE t = "shutdown" ->
                      [K0(t) EXCEPT !.pc = "idle", !.res = "ok", !.connected = FALSE,
                                    !.lock = "free"]
                  [] t \in {"poll", "setter"} ->
                      [K0(t) EXCEPT !.pc = "idle", !.lock = "free"]
                  [] OTHER -> [K0(t) EXCEPT !.pc = "idle", !.res = "ok"])
    /\ UNCHANGED <<dev0, callvars>>

\* ------------------------------------------------------- setters, stepwise
SetterRefreshDone(t) ==
    /\ pc[t] = "s_refresh"
    /\ \/ /\ ReadOK
          /\ UNCHANGED nfail
          /\ Apply(t, SetterBody(t, K0(t), op[t], dev, B(dev, 16), link))
       \/ /\ Fault(t)
          /\ UNCHANGED sessvars
          /\ Apply(t, Raise(t, K0(t), "RefreshError", link))
    /\ UNCHANGED <<dev0, callvars>>

\* the disable write of a mode change, then asyncio.sleep(0.3)
SetterWrite1Done(t) ==
    /\ pc[t] = "s_write1"
    /\ \/ /\ WriteOK(t)
          /\ UNCHANGED nfail
          /\ Apply(t, [K0(t) EXCEPT !.pc = "s_pause", !.pend = NoData])
       \/ /\ WriteFault(t)
          /\ Apply(t, Raise(t, K0(t), "WriteError", link))
    /\ UNCHANGED <<dev0, callvars>>

\* after the pause: step 2 is built from the cache as it is now
SetterPauseDone(t) ==
    /\ pc[t] = "s_pause"
    /\ UNCHANGED sessvars
    /\ LET p == EnablePlan(op[t], state_data)
       IN  Apply(t, IF p.err # "" THEN Raise(t, K0(t), p.err, link)
                    ELSE WriteState(t, K0(t), p.blob, counter, link, "s_write"))
    /\ UNCHANGED <<dev0, nfail, callvars>>

SetterWriteDone(t) ==
    /\ pc[t] = "s_write"
    /\ \/ /\ WriteOK(t)
          /\ UNCHANGED nfail
          /\ Apply(t, SetterReturn(t, K0(t), link))
       \/ /\ WriteFault(t)
          /\ Apply(t, Raise(t, K0(t), "WriteError", link))
    /\ UNCHANGED <<dev0, callvars>>

handle_notification ==
    /\ notify
    /\ link = "open"
    /\ nnotif < MaxNotifs
    /\ nnotif' = nnotif + 1
    /\ dev' = MenuChange(dev)
    /\ state_data' = dev'
    /\ counter' = B(dev', 16)
    /\ base' = B(dev', 16)
    /\ nw' = 0
    /\ UNCHANGED <<dev0, nfail, link, notify, orphan, kvars, op, stage, bk, ncalls, nset, nsmart>>


\* ------------------------------------------------------------ coordinator
MAX_RETRIES == 3

\* a poll that is not started any more once MAX_RETRIES polls have failed
async_update_data_giveup ==
    /\ pc["poll"] = "idle"
    /\ lock = "free"
    /\ retry_count < MAX_RETRIES
    /\ IF ~connected
       THEN /\ ConnectBegin
            /\ Apply("poll", [K0("poll") EXCEPT !.pc = "c_link", !.lock = "poll"])
       ELSE /\ UNCHANGED sessvars
            /\ Apply("poll",
                     IF link # "open"
                     THEN Raise("poll", K0("poll"), "NotConnected", link)
                     ELSE [K0("poll") EXCEPT !.pc = "read", !.lock = "poll"])
    /\ UNCHANGED <<dev0, nfail, callvars>>

\* _async_update_data up to its first await
async_update_data ==
    /\ pc["poll"] = "idle"
    /\ lock = "free"
    /\ IF ~connected
       THEN /\ ConnectBegin
            /\ Apply("poll", [K0("poll") EXCEPT !.pc = "c_link", !.lock = "poll"])
       ELSE /\ UNCHANGED sessvars
            /\ Apply("poll",
                     IF link # "open"
                     THEN Raise("poll", K0("poll"), "NotConnected", link)
                     ELSE [K0("poll") EXCEPT !.pc = "read", !.lock = "poll"])
    /\ UNCHANGED <<dev0, nfail, callvars>>

\* the setter calls the entities make
IntegrationOps ==
    {MkOp("set_target_temperature", "", 0, 0, 850),
     MkOp("set_schedule", "DAILY", 6, 30, 900)}

\* async_write_kettle(write_func, ...) up to its first await
async_write_kettle(o) ==
    /\ pc["setter"] = "idle"
    /\ lock = "free"
    /\ data # NoData
    /\ nset < MaxSetterCalls
    /\ nset' = nset + 1
    /\ op' = [op EXCEPT !["setter"] = o]
    /\ IF ~connected
       THEN /\ ConnectBegin
            /\ Apply("setter", [K0("setter") EXCEPT !.pc = "c_link", !.lock = "setter"])
       ELSE /\ UNCHANGED sessvars
            /\ Apply("setter",
                     SetterEnter("setter", [K0("setter") EXCEPT !.lock = "setter"],
                                 o, state_data, counter, link))
    /\ UNCHANGED <<dev0, nfail, stage, bk, ncalls, nsmart, nnotif>>

\* an async_shutdown that disconnects whenever the client's link is up
async_shutdown_anylink ==
    /\ pc["shutdown"] = "idle"
    /\ lock = "free"
    /\ UNCHANGED sessvars
    /\ Apply("shutdown",
             IF link = "open"
             THEN [K0("shutdown") EXCEPT !.pc = "disc", !.lock = "shutdown"]
             ELSE [K0("shutdown") EXCEPT !.res = "ok", !.connected = FALSE])
    /\ UNCHANGED <<dev0, nfail, callvars>>

\* async_shutdown up to its first await
async_shutdown ==
    /\ pc["shutdown"] = "idle"
    /\ lock = "free"
    /\ UNCHANGED sessvars
    /\ Apply("shutdown",
             IF connected /\ link # "none"
             THEN IF link = "open"
                  THEN [K0("shutdown") EXCEPT !.pc = "disc", !.lock = "shutdown"]
                  ELSE [K0("shutdown") EXCEPT !.res = "ok", !.connected = FALSE]
             ELSE [K0("shutdown") EXCEPT !.res = "ok"])
    /\ UNCHANGED <<dev0, nfail, callvars>>

\* the integration shuts the coordinator down when the entry is unloaded or
\* Home Assistant stops, both after the first refresh has succeeded
async_unload_entry ==
    /\ data # NoData
    /\ async_shutdown

\* ---------------------------------------------------------- smart turn-on
\* async_turn_on of the power switch or of the water heater
async_turn_on(t) ==
    /\ t \in SmartTasks
    /\ pc[t] = "idle"
    /\ data # NoData
    /\ nsmart < MaxSmart
    /\ nsmart' = nsmart + 1
    /\ Apply(t, [K0(t) EXCEPT !.pc = "created", !.is_on = TRUE])
    /\ UNCHANGED <<dev0, nfail, sessvars, op, stage, bk, ncalls, nset, nnotif>>

\* the schedule written by the Trigger step; temp = -1 stands for None
TriggerOp(temp, sd) ==
    LET current_h == B(sd, 11)
        current_m == B(sd, 10)
        m1 == current_m + 1
        trigger_m == IF m1 >= 60 THEN 0 ELSE m1
        h1 == IF m1 >= 60 THEN current_h + 1 ELSE current_h
        trigger_h == IF h1 >= 24 THEN 0 ELSE h1
        target_temp == IF temp = -1 \/ temp = 0 THEN HalfDegrees(B(sd, 4)) ELSE temp
    IN  MkOp("set_schedule", "ONCE", trigger_h, trigger_m, target_temp)

\* a Restore step that re-enables with set_schedule's default hour, minute
\* and temperature when the backup was off
RestoreOp_offasonce(backup_sched) ==
    IF backup_sched.schedule_enabled
    THEN MkOp("set_schedule",
              IF backup_sched.schedule_mode = "daily" THEN "DAILY" ELSE "ONCE",
              backup_sched.schedule_hour, backup_sched.schedule_minute,
              backup_sched.schedule_temperature)
    ELSE MkOp("set_schedule", "ONCE", 0, 0, 850)

\* the schedule written by the Restore step
RestoreOp(backup_sched) ==
    IF backup_sched.schedule_enabled
    THEN MkOp("set_schedule",
              IF backup_sched.schedule_mode = "daily" THEN "DAILY" ELSE "ONCE",
              backup_sched.schedule_hour, backup_sched.schedule_minute,
              backup_sched.schedule_temperature)
    ELSE MkOp("set_schedule", "OFF", 0, 0, 850)

\* the argument the entity passes to turn_on_smart
SmartTemp(t) == IF t = "heater" THEN HalfDegrees(B(data, 4)) ELSE -1

\* turn_on_smart run as a whole under the coordinator's lock
SmartTrigger_locked(t, k, temp, sd, cnt, lk) ==
    /\ bk' = [bk EXCEPT ![t] = get_schedule(sd)]
    /\ stage' = [stage EXCEPT ![t] = "trigger"]
    /\ op' = [op EXCEPT ![t] = TriggerOp(temp, sd)]
    /\ Apply(t, SetterEnter(t, [k EXCEPT !.lock = t], TriggerOp(temp, sd), sd, cnt, lk))

\* turn_on_smart from Backup to the first await of the Trigger write
SmartTrigger(t, k, temp, sd, cnt, lk) ==
    /\ bk' = [bk EXCEPT ![t] = get_schedule(sd)]
    /\ stage' = [stage EXCEPT ![t] = "trigger"]
    /\ op' = [op EXCEPT ![t] = TriggerOp(temp, sd)]
    /\ Apply(t, SetterEnter(t, k, TriggerOp(temp, sd), sd, cnt, lk))

\* the background task starts running turn_on_smart
turn_on_smart(t) ==
    /\ pc[t] = "created"
    /\ UNCHANGED sessvars
    /\ SmartTrigger(t, K0(t), SmartTemp(t), state_data, counter, link)
    /\ UNCHANGED <<dev0, nfail, ncalls, nset, nsmart, nnotif>>

\* asyncio.sleep(65) is over: Restore
DwellDone(t) ==
    /\ pc[t] = "dwell"
    /\ UNCHANGED sessvars
    /\ stage' = [stage EXCEPT ![t] = "restore"]
    /\ op' = [op EXCEPT ![t] = RestoreOp(bk[t])]
    /\ Apply(t, SetterEnter(t, K0(t), RestoreOp(bk[t]), state_data, counter, link))
    /\ UNCHANGED <<dev0, nfail, bk, ncalls, nset, nsmart, nnotif>>

\* ------------------------------------------------------------ direct calls
SessionOps ==
    {MkOp("set_target_temperature", "", 0, 0, 453),
     MkOp("set_target_temperature", "", 0, 0, 1200),
     MkOp("set_units", "FAHRENHEIT", 0, 0, 0),
     MkOp("set_clock_mode", "", 2, 0, 0),
     MkOp("set_clock_time", "", 8, 15, -1),
     MkOp("set_clock_time", "", 24, 0, -1),
     MkOp("set_chime_volume", "", 11, 0, 0),
     MkOp("set_pre_boil", "", 1, 0, 0),
     MkOp("set_hold_time", "", 30, 0, 0),
     MkOp("set_hold_time", "", 20, 0, 0),
     MkOp("set_altitude", "", 100, 0, 0),
     MkOp("set_language", "", 1, 0, 0),
     MkOp("set_language", "", -1, 0, 0),
     MkOp("set_schedule", "OFF", 0, 0, 850),
     MkOp("set_schedule", "ONCE", 6, 30, 900),
     MkOp("set_schedule", "DAILY", 6, 30, 900),
     MkOp("set_schedule", "DAILY", 6, 60, 900)}

UserConnect ==
    /\ pc["user"] = "idle"
    /\ link # "open"
    /\ ConnectBegin
    /\ op' = [op EXCEPT !["user"] = MkOp("connect", "", 0, 0, 0)]
    /\ Apply("user", [K0("user") EXCEPT !.pc = "c_link"])
    /\ UNCHANGED <<dev0, nfail, stage, bk, ncalls, nset, nsmart, nnotif>>

UserDisconnect ==
    /\ pc["user"] = "idle"
    /\ link = "open"
    /\ ncalls < MaxCalls
    /\ ncalls' = ncalls + 1
    /\ UNCHANGED sessvars
    /\ op' = [op EXCEPT !["user"] = MkOp("disconnect", "", 0, 0, 0)]
    /\ Apply("user", [K0("user") EXCEPT !.pc = "disc"])
    /\ UNCHANGED <<dev0, nfail, stage, bk, nset, nsmart, nnotif>>

UserRefresh ==
    /\ pc["user"] = "idle"
    /\ link # "none"
    /\ ncalls < MaxCalls
    /\ ncalls' = ncalls + 1
    /\ UNCHANGED sessvars
    /\ Apply("user", IF link # "open"
                     THEN Raise("user", K0("user"), "NotConnected", link)
                     ELSE [K0("user") EXCEPT !.pc = "read"])
    /\ op' = [op EXCEPT !["user"] = MkOp("refresh_state", "", 0, 0, 0)]
    /\ UNCHANGED <<dev0, nfail, stage, bk, nset, nsmart, nnotif>>

UserCall(o) ==
    /\ pc["user"] = "idle"
    /\ link # "none"
    /\ ncalls < MaxCalls
    /\ ncalls' = ncalls + 1
    /\ op' = [op EXCEPT !["user"] = o]
    /\ UNCHANGED sessvars
    /\ Apply("user", SetterEnter("user", K0("user"), o, state_data, counter, link))
    /\ UNCHANGED <<dev0, nfail, stage, bk, nset, nsmart, nnotif>>

\* turn_on_smart found the cache empty and awaited refresh_state
SmartRefreshDone(t) ==
    /\ pc[t] = "t_refresh"
    /\ \/ /\ ReadOK
          /\ UNCHANGED nfail
          /\ SmartTrigger(t, K0(t), op[t].c, dev, B(dev, 16), link)
       \/ /\ Fault(t)
          /\ UNCHANGED sessvars
          /\ Apply(t, Raise(t, K0(t), "RefreshError", link))
          /\ UNCHANGED <<op, stage, bk>>
    /\ UNCHANGED <<dev0, ncalls, nset, nsmart, nnotif>>

\* the temperatures a direct caller hands to turn_on_smart; -1 stands for None
SmartTemps == {-1, 0, 850}

\* turn_on_smart(temp) called directly on the session
UserTurnOnSmart(temp) ==
    /\ pc["user"] = "idle"
    /\ link # "none"
    /\ ncalls < MaxCalls
    /\ ncalls' = ncalls + 1
    /\ UNCHANGED sessvars
    /\ IF state_data = NoData
       THEN /\ op' = [op EXCEPT !["user"] = MkOp("turn_on_smart", "", 0, 0, temp)]
            /\ stage' = [stage EXCEPT !["user"] = ""]
            /\ UNCHANGED bk
            /\ Apply("user", IF link # "open"
                             THEN Raise("user", K0("user"), "NotConnected", link)
                             ELSE [K0("user") EXCEPT !.pc = "t_refresh", !.writes = <<>>,
                                                     !.pre = NoData])
       ELSE SmartTrigger("user", K0("user"), temp, state_data, counter, link)
    /\ UNCHANGED <<dev0, nfail, nset, nsmart, nnotif>>

\* decode one field and hand the decoded value back to its setter
RoundTripFields ==
    {"target_temperature", "units", "pre_boil", "altitude", "clock_time",
     "clock_mode", "hold_time", "chime_volume", "language"}

\* a decoded value the setter's parameter type can express
Expressible(f, sd) ==
    /\ f = "clock_mode" => get_clock_mode(sd) # "unknown"
    /\ f = "language" => get_language(sd) # -1

RoundTripOp(f, sd) ==
    [CASE f = "target_temperature" ->
            MkOp("set_target_temperature", "", 0, 0, get_target_temperature(sd))
       [] f = "units" ->
            MkOp("set_units",
                 IF get_units(sd) = "celsius" THEN "CELSIUS" ELSE "FAHRENHEIT", 0, 0, 0)
       [] f = "pre_boil" ->
            MkOp("set_pre_boil", "", IF get_pre_boil(sd) THEN 1 ELSE 0, 0, 0)
       [] f = "altitude" -> MkOp("set_altitude", "", get_altitude(sd), 0, 0)
       [] f = "clock_time" ->
            MkOp("set_clock_time", "", get_clock_time(sd)[1], get_clock_time(sd)[2], -1)
       [] f = "clock_mode" ->
            MkOp("set_clock_mode", "",
                 CASE get_clock_mode(sd) = "off" -> 0
                   [] get_clock_mode(sd) = "digital" -> 1
                   [] OTHER -> 2, 0, 0)
       [] f = "hold_time" -> MkOp("set_hold_time", "", get_hold_time(sd), 0, 0)
       [] f = "chime_volume" -> MkOp("set_chime_volume", "", get_chime_volume(sd), 0, 0)
       [] f = "language" -> MkOp("set_language", "", get_language(sd), 0, 0)
     EXCEPT !.rt = TRUE]

UserRoundTrip(f) ==
    /\ pc["user"] = "idle"
    /\ HasState(state_data)
    /\ Expressible(f, state_data)
    /\ ncalls < MaxCalls
    /\ ncalls' = ncalls + 1
    /\ op' = [op EXCEPT !["user"] = RoundTripOp(f, state_data)]
    /\ UNCHANGED sessvars
    /\ Apply("user", SetterEnter("user", K0("user"), RoundTripOp(f, state_data),
                                 state_data, counter, link))
    /\ UNCHANGED <<dev0, nfail, stage, bk, nset, nsmart, nnotif>>

\* blobs at and beyond the limits of the setters' parameter ranges
CodecBlobs ==
    {OffBlob(5), OnBlob(14),
     MkBlob(9, 29, 184, 139, 200, 170, 0, 7, 0, 0, 2, 60, 10, 4, 255),
     MkBlob(1, 21, 90, 128, 180, 192, 0, 0, 59, 23, 1, 63, 5, 0, 7),
     MkBlob(1, 23, 100, 128, 91, 192, 0, 0, 59, 23, 0, 0, 0, 1, 7),
     MkBlob(1, 23, 90, 0, 180, 192, 0, 0, 59, 23, 1, 15, 5, 0, 7),
     MkBlob(1, 23, 204, 139, 180, 192, 0, 0, 59, 23, 1, 15, 5, 0, 7),
     MkBlob(1, 23, 90, 128, 201, 192, 0, 0, 59, 23, 1, 15, 5, 0, 7),
     MkBlob(1, 23, 90, 128, 180, 192, 0, 0, 59, 23, 1, 15, 11, 0, 7),
     MkBlob(1, 23, 90, 128, 180, 192, 0, 0, 60, 24, 3, 15, 5, 9, 7)}

\* ------------------------------------------------------------------- specs
InitWith(blobs) ==
    /\ dev \in blobs
    /\ dev0 = dev
    /\ link = "none"
    /\ notify = FALSE
    /\ state_data = NoData
    /\ counter = 0
    /\ connected = FALSE
    /\ retry_count = 0
    /\ lock = "free"
    /\ data = NoData
    /\ pc = [t \in Tasks |-> "idle"]
    /\ op = [t \in Tasks |-> NoOp]
    /\ stage = [t \in Tasks |-> ""]
    /\ bk = [t \in Tasks |-> NoBackup]
    /\ pend = [t \in Tasks |-> NoData]
    /\ pre = [t \in Tasks |-> NoData]
    /\ writes = [t \in Tasks |-> <<>>]
    /\ res = [t \in Tasks |-> ""]
    /\ is_on = [t \in Tasks |-> FALSE]
    /\ base = 0
    /\ nw = 0
    /\ ncalls = 0
    /\ nset = 0
    /\ nsmart = 0
    /\ nnotif = 0
    /\ nfail = 0
    /\ orphan = {}
    /\ result = NoData

Init == InitWith(InitBlobs)

Next ==
    \/ async_update_data
    \/ \E o \in IntegrationOps : async_write_kettle(o)
    \/ async_unload_entry
    \/ \E t \in SmartTasks : async_turn_on(t)
    \/ \E t \in SmartTasks : turn_on_smart(t)
    \/ \E t \in SmartTasks : DwellDone(t)
    \/ \E t \in Tasks : ConnectLinkDone(t)
    \/ \E t \in Tasks : ConnectNotifyDone(t)
    \/ \E t \in Tasks : ConnectReadDone(t)
    \/ \E t \in Tasks : ReadDone(t)
    \/ \E t \in Tasks : DisconnectDone(t)
    \/ \E t \in Tasks : SetterWrite1Done(t)
    \/ \E t \in Tasks : SetterPauseDone(t)
    \/ \E t \in Tasks : SetterWriteDone(t)
    \/ handle_notification

Spec == Init /\ [][Next]_vars

\* the setter calls of the entities, the mode select's change to ONCE included
CoordOps ==
    IntegrationOps \cup {MkOp("set_schedule", "ONCE", 6, 30, 900)}

\* the coordinator without the entities' smart turn-on
NextCoord ==
    \/ async_update_data
    \/ \E o \in CoordOps : async_write_kettle(o)
    \/ async_shutdown
    \/ \E t \in Tasks : ConnectLinkDone(t)
    \/ \E t \in Tasks : ConnectNotifyDone(t)
    \/ \E t \in Tasks : ConnectReadDone(t)
    \/ \E t \in Tasks : ReadDone(t)
    \/ \E t \in Tasks : DisconnectDone(t)
    \/ \E t \in Tasks : SetterWrite1Done(t)
    \/ \E t \in Tasks : SetterPauseDone(t)
    \/ \E t \in Tasks : SetterWriteDone(t)
    \/ handle_notification

SpecCoord == Init /\ [][NextCoord]_vars

\* one entity's smart turn-on sequence beside the poll and the setters
NextDwell ==
    \/ async_update_data
    \/ \E o \in IntegrationOps : async_write_kettle(o)
    \/ async_turn_on("heater")
    \/ turn_on_smart("heater")
    \/ DwellDone("heater")
    \/ \E t \in Tasks : ConnectLinkDone(t)
    \/ \E t \in Tasks : ConnectNotifyDone(t)
    \/ \E t \in Tasks : ConnectReadDone(t)
    \/ \E t \in Tasks : ReadDone(t)
    \/ \E t \in Tasks : DisconnectDone(t)
    \/ \E t \in Tasks : SetterWrite1Done(t)
    \/ \E t \in Tasks : SetterPauseDone(t)
    \/ \E t \in Tasks : SetterWriteDone(t)

SpecDwell == Init /\ [][NextDwell]_vars

\* both entities' smart turn-on sequences beside the poll
NextEntities ==
    \/ async_update_data
    \/ \E t \in SmartTasks : async_turn_on(t)
    \/ \E t \in SmartTasks : turn_on_smart(t)
    \/ \E t \in SmartTasks : DwellDone(t)
    \/ \E t \in Tasks : ConnectLinkDone(t)
    \/ \E t \in Tasks : ConnectNotifyDone(t)
    \/ \E t \in Tasks : ConnectReadDone(t)
    \/ \E t \in Tasks : ReadDone(t)
    \/ \E t \in Tasks : DisconnectDone(t)
    \/ \E t \in Tasks : SetterWrite1Done(t)
    \/ \E t \in Tasks : SetterPauseDone(t)
    \/ \E t \in Tasks : SetterWriteDone(t)

SpecEntities == Init /\ [][NextEntities]_vars

InitSession == InitWith(SessionBlobs)

NextSession ==
    \/ UserConnect
    \/ UserDisconnect
    \/ UserRefresh
    \/ \E o \in SessionOps : UserCall(o)
    \/ ConnectLinkDone("user")
    \/ ConnectNotifyDone("user")
    \/ ConnectReadDone("user")
    \/ ReadDone("user")
    \/ DisconnectDone("user")
    \/ SetterRefreshDone("user")
    \/ SetterWrite1Done("user")
    \/ SetterPauseDone("user")
    \/ SetterWriteDone("user")

SpecSession == InitSession /\ [][NextSession]_vars


\* the blob d with the device clock at h:m
ClockBlob(d, h, m) == SetB(SetB(d, 10, m), 11, h)

\* what the device may hold when turn_on_smart is called directly
SmartBlobs ==
    {OffBlob(5), OffBlob(7), OffBlob(247), OffBlob(254),
     OnBlob(6), OnBlob(14), OnBlob(245), OnBlob(255),
     ClockBlob(OffBlob(5), 8, 15), ClockBlob(OnBlob(6), 10, 59),
     ClockBlob(OnBlob(14), 8, 15)}

InitSmart == InitWith(SmartBlobs)

NextSmart ==
    \/ UserConnect
    \/ \E temp \in SmartTemps : UserTurnOnSmart(temp)
    \/ ConnectLinkDone("user")
    \/ ConnectNotifyDone("user")
    \/ ConnectReadDone("user")
    \/ SmartRefreshDone("user")
    \/ SetterWrite1Done("user")
    \/ SetterPauseDone("user")
    \/ SetterWriteDone("user")
    \/ DwellDone("user")

SpecSmart == InitSmart /\ [][NextSmart]_vars

\* altitudes handed to set_altitude: below, inside and above [0, 3000], with
\* every remainder modulo 30 around the first ties and the byte boundary
AltitudeInputs ==
    (-2..46) \cup {100, 255, 256, 270, 1500, 2984, 2985, 2986, 3000, 3001, 40000}

\* device blobs whose altitude bytes hold 90, 100 (no multiple of 30), 90
\* without the 0x80 marker, 3020 and 32767
AltitudeBlobs ==
    {OffBlob(5),
     MkBlob(1, 23, 100, 128, 180, 192, 0, 0, 59, 23, 1, 15, 5, 0, 7),
     MkBlob(1, 23, 90, 0, 180, 192, 0, 0, 59, 23, 1, 15, 5, 0, 7),
     MkBlob(1, 23, 204, 139, 180, 192, 0, 0, 59, 23, 1, 15, 5, 0, 255),
     MkBlob(1, 23, 255, 255, 180, 192, 0, 0, 59, 23, 1, 15, 5, 0, 7)}

InitAltitude == InitWith(AltitudeBlobs)

NextAltitude ==
    \/ UserConnect
    \/ \E a \in AltitudeInputs : UserCall(MkOp("set_altitude", "", a, 0, 0))
    \/ ConnectLinkDone("user")
    \/ ConnectNotifyDone("user")
    \/ ConnectReadDone("user")
    \/ SetterRefreshDone("user")
    \/ SetterWriteDone("user")

SpecAltitude == InitAltitude /\ [][NextAltitude]_vars

\* temperatures handed to set_target_temperature, in tenths of a degree:
\* half-degree steps at both ends of 0..100 and in between
HalfSteps ==
    {5 * n : n \in 0..10} \cup {450, 455, 850, 900, 905, 990, 995, 1000}

\* device blobs whose byte 4 is 180, 90 and 91
TemperatureBlobs ==
    {OffBlob(5),
     MkBlob(1, 23, 90, 128, 90, 192, 0, 0, 59, 23, 1, 15, 5, 0, 7),
     MkBlob(1, 23, 90, 128, 91, 192, 0, 0, 59, 23, 1, 15, 5, 0, 255)}

InitTemperature == InitWith(TemperatureBlobs)

NextTemperature ==
    \/ UserConnect
    \/ \E t10 \in HalfSteps : UserCall(MkOp("set_target_temperature", "", 0, 0, t10))
    \/ ConnectLinkDone("user")
    \/ ConnectNotifyDone("user")
    \/ ConnectReadDone("user")
    \/ SetterRefreshDone("user")
    \/ SetterWriteDone("user")

SpecTemperature == InitTemperature /\ [][NextTemperature]_vars

InitCodec == InitWith(CodecBlobs)

NextCodec ==
    \/ UserConnect
    \/ \E f \in RoundTripFields : UserRoundTrip(f)
    \/ ConnectLinkDone("user")
    \/ ConnectNotifyDone("user")
    \/ ConnectReadDone("user")
    \/ SetterWriteDone("user")

SpecCodec == InitCodec /\ [][NextCodec]_vars


\* ------------------------------------------------------------------ claims
Last(w) == w[Len(w)]

\* bytes 0..15 agree
SameBut16(x, y) == \A i \in 0..15 : B(x, i) = B(y, i)

\* the field bytes a setter call is entitled to alter
TargetBytes(o) ==
    CASE o.name = "set_target_temperature" -> {4}
      [] o.name = "set_units" -> {1}
      [] o.name = "set_pre_boil" -> {1}
      [] o.name = "set_clock_mode" -> {12}
      [] o.name = "set_clock_time" -> IF o.c = -1 THEN {10, 11} ELSE {10, 11, 12}
      [] o.name = "set_chime_volume" -> {14}
      [] o.name = "set_hold_time" -> {13}
      [] o.name = "set_altitude" -> {2, 3}
      [] o.name = "set_language" -> {15}
      [] o.name = "set_schedule" -> {0, 6, 8, 9}
      [] OTHER -> {}

\* within a flag byte, the bit a setter call is entitled to alter
TargetBit(o) ==
    CASE o.name = "set_units" -> 1
      [] o.name = "set_pre_boil" -> 3
      [] o.name = "set_schedule" -> 3
      [] OTHER -> -1

FlagBytes(o) == IF TargetBit(o) = -1 THEN {} ELSE TargetBytes(o) \cap {0, 1}

OnlyTargetChanged(o, old, new) ==
    /\ Len(new) = BlobLen
    /\ \A i \in 0..15 : i \notin TargetBytes(o) => B(new, i) = B(old, i)
    /\ \A i \in FlagBytes(o) :
          ClearBit(B(new, i), TargetBit(o)) = ClearBit(B(old, i), TargetBit(o))

Done(t) == pc[t] = "idle" /\ op[t].name # ""

TransportErrors == {"NotConnected", "RefreshError", "WriteError", "ReadError"}

\* C1: at most one transport operation of the session is in flight at any
\* time, whatever the interleaving of poll, write-through calls, shutdown
\* and a running smart turn-on sequence.
C1_OneInFlight == Cardinality({t \in Tasks : InFlight(t)}) <= 1

\* C2: every step that changes the cached blob or the counter is taken while
\* the coordinator's lock is held, and when a task takes the step it is the
\* task that holds the lock.
C2_MutationUnderLock ==
    [][(state_data' # state_data \/ counter' # counter)
        => /\ lock # "free"
           /\ \A t \in Tasks : pc'[t] # pc[t] => lock = t]_vars

\* C3: while the Trigger or the Restore write of the smart turn-on sequence
\* is on the wire, the sequence holds the coordinator's lock.
C3_SmartWritesLocked ==
    \A t \in SmartTasks : pc[t] \in WritePcs => lock = t

\* C4: after N successful writes since the last read the cached counter is
\* (counter at that read + N) mod 256, byte 16 of the cache equals it, and
\* every blob put on the wire carries the previous counter plus one.
C4_CounterAdvances ==
    /\ HasState(state_data) =>
          /\ counter = (base + nw) % 256
          /\ B(state_data, 16) = counter
    /\ \A t \in Tasks : pc[t] \in WritePcs => B(pend[t], 16) = (counter + 1) % 256

\* a two-step mode change has completed and the counter has wrapped past 255
C4_Witness ==
    /\ Done("user")
    /\ res["user"] = "ok"
    /\ Len(writes["user"]) = 2
    /\ nw >= 2
    /\ base + nw >= 256
    /\ counter = (base + nw) % 256

\* C5: every blob a setter puts on the wire is 17 bytes long and differs
\* from the cached blob only in the targeted field and in byte 16; bytes 5
\* and 7 of the device and of the cache stay what they were at the start.
C5_FrameEffect ==
    /\ \A t \in Tasks :
          pc[t] \in WritePcs => OnlyTargetChanged(op[t], state_data, pend[t])
    /\ B(dev, 5) = B(dev0, 5) /\ B(dev, 7) = B(dev0, 7)
    /\ HasState(state_data) =>
          B(state_data, 5) = B(dev0, 5) /\ B(state_data, 7) = B(dev0, 7)

\* a second setter call is writing after the first one changed the device
C5_Witness ==
    /\ pc["user"] \in WritePcs
    /\ ncalls = 2
    /\ nw >= 1
    /\ dev # dev0
    /\ pend["user"] # state_data

RoundTripDone == Done("user") /\ op["user"].rt /\ res["user"] = "ok"

\* the stored value of the field is one its setter writes back unchanged
InRange(o, sd) ==
    /\ o.name = "set_target_temperature" => B(sd, 4) <= 200
    /\ o.name = "set_altitude" =>
          /\ B(sd, 3) >= 128
          /\ ((B(sd, 3) % 128) * 256 + B(sd, 2)) % 30 = 0
          /\ (B(sd, 3) % 128) * 256 + B(sd, 2) <= 3000
    /\ o.name = "set_hold_time" => B(sd, 13) <= 60
    /\ o.name = "set_chime_volume" => B(sd, 14) <= 10

\* C6 as stated: for every blob, decoding a field and writing the decoded
\* value back through its setter leaves bytes 0..15 as they were.
C6_RoundTripAny ==
    RoundTripDone => SameBut16(state_data, pre["user"])

\* C6 amended: the round trip leaves bytes 0..15 as they were whenever the
\* stored value of the field lies in the range its setter accepts.
C6_RoundTripInRange ==
    (RoundTripDone /\ InRange(op["user"], pre["user"]))
        => SameBut16(state_data, pre["user"])

\* an odd target-temperature byte (45.5 C) has made the round trip
C6_Witness ==
    /\ RoundTripDone
    /\ op["user"].name = "set_target_temperature"
    /\ B(pre["user"], 4) = 91
    /\ B(state_data, 4) = 91

\* C7: no write is on the wire while the cache is empty; a setter entered
\* with an empty cache reads first, and when that read fails it has written
\* nothing.
C7_NoWriteWithoutCache ==
    \A t \in Tasks :
        /\ pc[t] \in WritePcs => HasState(state_data) /\ HasState(pre[t])
        /\ pc[t] = "s_refresh" => writes[t] = <<>>
        /\ (pc[t] = "idle" /\ res[t] = "RefreshError") => writes[t] = <<>>

\* connect() returned False with the link up, and the first setter call has
\* read the blob and is writing
C7_Witness ==
    /\ pc["user"] \in WritePcs
    /\ ncalls = 1
    /\ link = "open"
    /\ ~notify
    /\ HasState(state_data)

\* C8: a set_schedule(ONCE or DAILY) call with in-range arguments that meets
\* no transport error puts two blobs on the wire when the cached schedule is
\* enabled in the other mode (the OFF encoding, then the enable write) and
\* one blob otherwise.
C8_TwoWritesOnModeChange ==
    LET o == op["user"]
        w == writes["user"]
        p == pre["user"]
    IN  (/\ Done("user")
         /\ o.name = "set_schedule"
         /\ o.m \in {"ONCE", "DAILY"}
         /\ o.a \in 0..23 /\ o.b \in 0..59
         /\ HasState(p)
         /\ res["user"] \notin TransportErrors)
        => IF needs_disable(p, o.m)
           THEN /\ Len(w) = 2
                /\ SameBut16(w[1], ScheduleOff(p))
                /\ Bit(B(w[2], 0), 3) = 1
                /\ B(w[2], 8) = o.b /\ B(w[2], 9) = o.a
           ELSE Len(w) = 1

\* C9: after a successful set_schedule(ONCE) the blob written last has bit 3
\* of byte 16 set and the cached mode is "once"; after a successful
\* set_schedule(DAILY) the bit is clear and the mode is "daily".
C9_ModeBitWritten ==
    LET o == op["user"]
        w == writes["user"]
    IN  (/\ Done("user")
         /\ o.name = "set_schedule"
         /\ o.m \in {"ONCE", "DAILY"}
         /\ res["user"] = "ok"
         /\ w # <<>>)
        => /\ Bit(B(Last(w), 16), 3) = (IF o.m = "ONCE" THEN 1 ELSE 0)
           /\ get_schedule_mode(state_data) = (IF o.m = "ONCE" THEN "once" ELSE "daily")

\* C10: after a successful set_schedule(OFF) exactly one blob was written,
\* the cache has bit 3 of byte 0 clear, byte 6 = 0xC0, bytes 8 and 9 zero,
\* and get_schedule reports "off" with no time or temperature.
C10_ScheduleOff ==
    (/\ Done("user")
     /\ op["user"].name = "set_schedule"
     /\ op["user"].m = "OFF"
     /\ res["user"] = "ok")
    => /\ Len(writes["user"]) = 1
       /\ Bit(B(state_data, 0), 3) = 0
       /\ B(state_data, 6) = 192
       /\ B(state_data, 8) = 0
       /\ B(state_data, 9) = 0
       /\ get_schedule(state_data) =
             [schedule_mode |-> "off", schedule_enabled |-> FALSE,
              schedule_temperature |-> -1, schedule_hour |-> -1,
              schedule_minute |-> -1]

\* set_schedule(OFF) has completed on a schedule that was enabled in mode once
C10_Witness ==
    /\ Done("user")
    /\ op["user"].name = "set_schedule"
    /\ op["user"].m = "OFF"
    /\ res["user"] = "ok"
    /\ get_schedule_mode(pre["user"]) = "once"
    /\ get_schedule_mode(state_data) = "off"

\* a turn_on_smart sequence run by task t has returned normally
SmartDone(t) == stage[t] = "restore" /\ res[t] = "ok" /\ pc[t] \in {"idle", "done"}

\* C11: a turn_on_smart sequence started on an enabled schedule and called
\* directly, with nothing else touching the session, ends with get_schedule
\* reporting the mode, hour, minute and temperature it reported at the start.
C11_ScheduleRestored ==
    (SmartDone("user") /\ bk["user"].schedule_enabled)
        => get_schedule(state_data) = bk["user"]

\* C12: a turn_on_smart sequence started with the schedule off ends with the
\* schedule off in the cache and on the device: bit 3 of byte 0 clear,
\* byte 6 = 0xC0, bytes 8 and 9 zero.
C12_OffStaysOff ==
    (SmartDone("user") /\ ~bk["user"].schedule_enabled)
        => /\ state_data = dev
           /\ Bit(B(dev, 0), 3) = 0
           /\ B(dev, 6) = 192
           /\ B(dev, 8) = 0
           /\ B(dev, 9) = 0

\* a sequence started with the schedule off has triggered, waited and restored
C12_Witness ==
    /\ SmartDone("user")
    /\ ~bk["user"].schedule_enabled
    /\ HasState(pre["user"])
    /\ Bit(B(pre["user"], 0), 3) = 1
    /\ Len(writes["user"]) = 1
    /\ nw >= 2

\* one minute after h:m, as <<hour, minute>>
OneMinuteLater(h, m) == <<((h * 60 + m + 1) % 1440) \div 60, (h * 60 + m + 1) % 60>>

\* C13: during the wait that follows the Trigger step the cached schedule is
\* enabled, its mode is "once", and its hour and minute are the device clock
\* of the cache at trigger time plus one minute.
C13_TriggerOnceNextMinute ==
    pc["user"] = "dwell"
        => LET sch == get_schedule(state_data)
               p == pre["user"]
           IN  /\ sch.schedule_enabled
               /\ sch.schedule_mode = "once"
               /\ <<sch.schedule_hour, sch.schedule_minute>>
                     = OneMinuteLater(B(p, 11), B(p, 10))

\* the same without the mode: the trigger time alone
TriggerTimeNextMinute ==
    pc["user"] = "dwell"
        => LET sch == get_schedule(state_data)
               p == pre["user"]
           IN  /\ sch.schedule_enabled
               /\ <<sch.schedule_hour, sch.schedule_minute>>
                     = OneMinuteLater(B(p, 11), B(p, 10))

Faulted(t) == pc[t] \in WritePcs /\ pc'[t] # pc[t] /\ nw' = nw

\* C15: when a write of the Trigger or of the Restore step raises, the
\* sequence ends there (no later step, no further blob on the wire), the
\* entity's optimistic indicator is reset to off, the sequence holds no
\* lock, and a poll can start as soon as the lock is free.
C15_SmartFailureContained ==
    /\ [](\A t \in SmartTasks :
            pc[t] = "failed" =>
              /\ ~is_on[t]
              /\ lock # t
              /\ (lock = "free" /\ pc["poll"] = "idle") => ENABLED async_update_data)
    /\ [][\A t \in SmartTasks :
            /\ Faulted(t)
                  => pc'[t] = "failed" /\ ~is_on'[t] /\ dev' = dev
            /\ pc[t] = "failed"
                  => pc'[t] = "failed" /\ writes'[t] = writes[t]]_vars

\* the Restore write of the switch's sequence raised, and a later poll has
\* read the device and published the schedule the Trigger step left on it
C15_Witness ==
    /\ pc["switch"] = "failed"
    /\ stage["switch"] = "restore"
    /\ res["switch"] = "WriteError"
    /\ pc["poll"] = "idle"
    /\ res["poll"] = "ok"
    /\ connected
    /\ data = dev
    /\ dev # dev0

\* the wait of task t ends in this step with the link down, in a behaviour
\* with one sequence, no setter call and no notification
RestoreCutOff(t) ==
    /\ pc[t] = "dwell"
    /\ pc'[t] # "dwell"
    /\ link # "open"
    /\ nset = 0 /\ nnotif = 0 /\ nsmart = 1

\* the device holds an enabled schedule one minute after its clock
TriggerOnDevice ==
    /\ get_schedule(dev).schedule_enabled
    /\ <<get_schedule(dev).schedule_hour, get_schedule(dev).schedule_minute>>
          = OneMinuteLater(B(dev, 11), B(dev, 10))

\* C16: when the link has been taken down after the Trigger write and before
\* Restore, Restore fails with a not-connected error without writing, and
\* the device keeps the triggered schedule: enabled, mode "once", one minute
\* after the device clock.
C16_RestoreCutOff ==
    [][\A t \in SmartTasks :
        RestoreCutOff(t) =>
            /\ pc'[t] = "failed"
            /\ res'[t] = "NotConnected"
            /\ writes'[t] = <<>>
            /\ dev' = dev
            /\ TriggerOnDevice
            /\ get_schedule(dev).schedule_mode = "once"]_vars

\* the same without the mode
RestoreCutOffKeepsTrigger ==
    [][\A t \in SmartTasks :
        RestoreCutOff(t) =>
            /\ pc'[t] = "failed"
            /\ res'[t] = "NotConnected"
            /\ writes'[t] = <<>>
            /\ dev' = dev
            /\ TriggerOnDevice]_vars

ConnectPcs == {"c_link", "c_notify", "c_read"}

\* C17: a poll runs under the lock; started while not connected it makes one
\* connect attempt; when that attempt fails the poll ends there with
\* _retry_count one higher, available false and UpdateFailed, and no read of
\* its own; when it succeeds, or the coordinator was connected already, the
\* poll reads, and a successful read leaves _retry_count 0 and available true.
C17_PollCycle ==
    /\ [](pc["poll"] # "idle" => lock = "poll")
    /\ [][/\ (pc["poll"] = "idle" /\ pc'["poll"] # "idle")
               => pc'["poll"] = (IF connected THEN "read" ELSE "c_link")
          /\ pc["poll"] # "idle" => pc'["poll"] # "c_link"
          /\ (pc["poll"] \in ConnectPcs /\ nfail' # nfail)
               => /\ pc'["poll"] = "idle"
                  /\ res'["poll"] = "UpdateFailed"
                  /\ retry_count' = retry_count + 1
                  /\ ~connected'
                  /\ data' = data
          /\ (pc["poll"] = "c_read" /\ nfail' = nfail /\ pc'["poll"] # "c_read")
               => pc'["poll"] = "read" /\ connected' /\ retry_count' = 0
          /\ (pc["poll"] = "read" /\ nfail' = nfail /\ pc'["poll"] # "read")
               => /\ pc'["poll"] = "idle"
                  /\ res'["poll"] = "ok"
                  /\ retry_count' = 0
                  /\ connected'
                  /\ data' = dev]_vars

\* a poll failed at connect, and the poll after it connected and read
C17_Witness ==
    /\ pc["poll"] = "idle"
    /\ res["poll"] = "ok"
    /\ nfail >= 1
    /\ retry_count = 0
    /\ connected
    /\ data = dev
    /\ pc["setter"] = "idle" /\ res["setter"] = ""
    /\ res["shutdown"] = ""

\* the positions of a write-through call from its write to its read
SetterWriting == {"s_write1", "s_pause", "s_write", "read"}

\* C18: in async_write_kettle the write that write_func completes is followed
\* at once by a read under the same hold of the lock; from the write to the
\* end of that read the poll and the shutdown stand still, and the data the
\* call publishes is what that read returned.
C18_ReadAfterWrite ==
    /\ [](pc["setter"] \in SetterWriting
            => /\ lock = "setter"
               /\ pc["poll"] = "idle"
               /\ pc["shutdown"] = "idle")
    /\ [][/\ (pc["setter"] = "s_write" /\ nw' = nw + 1 /\ pend'["setter"] = NoData)
               => pc'["setter"] = "read" /\ lock' = "setter" /\ data' = data
          /\ (pc["setter"] = "read" /\ pc'["setter"] = "idle" /\ res'["setter"] = "ok")
               => /\ data' = dev
                  /\ state_data' = dev
                  /\ lock' = "free"
          /\ (pc["setter"] = "idle" /\ data' # data) => pc["poll"] = "read"]_vars

\* a write-through call has published what it read back after its write
C18_Witness ==
    /\ pc["setter"] = "idle"
    /\ res["setter"] = "ok"
    /\ nset = 1
    /\ data = dev
    /\ dev # dev0
    /\ lock = "free"
    /\ res["shutdown"] = ""

CoordCalls == {"poll", "setter"}

\* C19: when a connect, read or write of a poll or of a write-through call
\* raises, the call makes no further connect, read or write (at most the
\* disconnect of its handler) and ends with available false; a call makes
\* at most one connect attempt; and a call that starts while available is
\* false starts with a connect attempt.
C19_FailOnceThenReconnect ==
    [][\A t \in CoordCalls :
        /\ (pc[t] \in IOpcs \ {"disc"} /\ nfail' # nfail)
              => pc'[t] \in {"disc", "idle"} /\ ~connected'
        /\ pc[t] = "disc" => pc'[t] \in {"disc", "idle"} /\ ~connected'
        /\ (pc[t] # "idle" /\ pc'[t] = "idle" /\ res'[t] # "ok") => ~connected'
        /\ pc[t] # "idle" => pc'[t] # "c_link"
        /\ (pc[t] = "idle" /\ pc'[t] # "idle" /\ ~connected) => pc'[t] = "c_link"
        /\ (pc[t] = "idle" /\ ~connected /\ res'[t] # res[t]) => pc'[t] = "c_link"]_vars

\* a setter called while unavailable has made its one connect attempt, which
\* failed, and raised
C19_Witness ==
    /\ pc["setter"] = "idle"
    /\ res["setter"] = "UpdateFailed"
    /\ nset = 1
    /\ nfail = 1
    /\ ~connected
    /\ lock = "free"
    /\ res["shutdown"] = "ok"

\* C20: whenever no call of the coordinator is under way and available is
\* false, the session has no open link; and connect() replaces the client
\* object only when the link of the one it replaces is not open.
C20_NoLinkWhenUnavailable ==
    /\ []((lock = "free" /\ ~connected) => link # "open")
    /\ [][(link' = "closed" /\ notify' = FALSE /\ link # link'
            /\ \E t \in CoordCalls : pc'[t] = "c_link" /\ pc[t] = "idle")
           => link # "open"]_vars

\* C21: a connect() call makes one link attempt and never raises: it ends
\* with True or False; True only from the initial read, with the link open,
\* notifications subscribed and the cache holding the blob just read; False
\* exactly when one of its three transport steps failed.
C21_ConnectOnceNeverRaises ==
    [][/\ pc["user"] # "idle" => pc'["user"] # "c_link"
       /\ (pc["user"] \in ConnectPcs /\ pc'["user"] \notin ConnectPcs)
            => /\ pc'["user"] = "idle"
               /\ res'["user"] \in {"True", "False"}
               /\ res'["user"] = "False" <=> nfail' # nfail
               /\ res'["user"] = "True"
                    => /\ pc["user"] = "c_read"
                       /\ link' = "open"
                       /\ notify'
                       /\ HasState(state_data')
                       /\ state_data' = dev
                       /\ counter' = B(dev, 16)
       /\ (pc["user"] \in ConnectPcs /\ nfail' # nfail)
            => pc'["user"] = "idle" /\ res'["user"] = "False"]_vars

\* a connect() returned False and the one after it returned True
C21_Witness ==
    /\ pc["user"] = "idle"
    /\ op["user"].name = "connect"
    /\ res["user"] = "True"
    /\ nfail >= 1
    /\ link = "open"
    /\ notify
    /\ state_data = dev

\* C22: async_shutdown runs under the coordinator's lock; it awaits
\* disconnect() only when the coordinator is connected, and then ends with
\* available false (and the link closed unless disconnect() itself failed);
\* called while not connected, a first time or again, it makes no transport
\* call and changes nothing; it never raises.
C22_ShutdownIdempotent ==
    /\ [](/\ pc["shutdown"] # "idle" => lock = "shutdown"
          /\ res["shutdown"] \in {"", "ok"})
    /\ [][/\ (pc["shutdown"] = "idle" /\ pc'["shutdown"] # "idle")
               => /\ connected /\ link = "open"
                  /\ pc'["shutdown"] = "disc"
                  /\ lock = "free" /\ lock' = "shutdown"
                  /\ UNCHANGED sessvars
          /\ (pc["shutdown"] = "disc" /\ pc'["shutdown"] # "disc")
               => /\ pc'["shutdown"] = "idle"
                  /\ res'["shutdown"] = "ok"
                  /\ ~connected'
                  /\ lock' = "free"
                  /\ nfail' = nfail => link' = "closed" /\ ~notify'
          /\ (pc["shutdown"] = "idle" /\ pc'["shutdown"] = "idle"
                /\ res'["shutdown"] # res["shutdown"])
               => /\ ~(connected /\ link = "open")
                  /\ ~connected'
                  /\ lock' = lock
                  /\ nfail' = nfail
                  /\ UNCHANGED sessvars]_vars

\* a shutdown has disconnected a coordinator that a poll had connected
C22_Witness ==
    /\ pc["shutdown"] = "idle"
    /\ res["shutdown"] = "ok"
    /\ res["poll"] = "ok"
    /\ data # NoData
    /\ ~connected
    /\ link = "closed"
    /\ lock = "free"
    /\ nfail = 0

\* C23: once the session has disconnected and until a connect() is under
\* way again, the cache is empty: get_state() and get_schedule() return
\* nothing.
C23_CacheDiscardedOnDisconnect ==
    (link = "closed" /\ \A t \in Tasks : pc[t] \notin ConnectPcs)
        => /\ ~HasState(state_data)
           /\ get_schedule(state_data) = NoBackup

\* a set_clock_time or set_schedule(ONCE / DAILY) call whose hour or minute
\* is out of range
InvalidTime(o) ==
    /\ \/ o.name = "set_clock_time"
       \/ o.name = "set_schedule" /\ o.m \in {"ONCE", "DAILY"}
    /\ ~(o.a \in 0..23 /\ o.b \in 0..59)

\* C24: a set_clock_time or set_schedule(ONCE / DAILY) call with an hour
\* outside 0..23 or a minute outside 0..59 ends at once with a validation
\* error: it makes no transport call, puts no blob on the wire and leaves
\* the cached blob, the counter and the device as they were.
C24_InvalidTimeRejected ==
    [][(pc["user"] = "idle" /\ ncalls' = ncalls + 1 /\ InvalidTime(op'["user"]))
        => /\ pc'["user"] = "idle"
           /\ res'["user"] = "ValueError"
           /\ writes'["user"] = <<>>
           /\ state_data' = state_data
           /\ counter' = counter
           /\ dev' = dev]_vars

\* a temperature outside 0..100 C or a chime volume outside 0..10
OutOfRangeValue(o) ==
    \/ o.name = "set_target_temperature" /\ o.c \notin 0..1000
    \/ o.name = "set_schedule" /\ o.m \in {"ONCE", "DAILY"} /\ o.c \notin 0..1000
    \/ o.name = "set_chime_volume" /\ o.a \notin 0..10

\* C25: a set_target_temperature or set_schedule call with a temperature
\* outside 0..100, or a set_chime_volume call with a volume outside 0..10,
\* never has a blob on the wire, and unless a transport error ends it first
\* it ends with a validation error having written nothing.
C25_OutOfRangeRejected ==
    OutOfRangeValue(op["user"])
        => /\ pc["user"] \notin WritePcs
           /\ (Done("user") /\ res["user"] \notin TransportErrors)
                 => res["user"] = "ValueError" /\ writes["user"] = <<>>

\* q is a multiple of 30 nearest to a clamped to [0, 3000]
NearestStep(q, a) ==
    /\ q % 30 = 0
    /\ q - Clamp(0, 3000, a) \in -15..15

\* the altitude the bytes 2 and 3 of blob d spell out
AltitudeBytes(d) == (B(d, 3) % 128) * 256 + B(d, 2)

\* C26: the blob set_altitude(a) puts on the wire holds q, a multiple of 30
\* nearest to a clamped to [0, 3000], as byte 2 = q mod 256 and
\* byte 3 = 0x80 | ((q >> 8) & 0x7F); after the write get_altitude() returns
\* q (90 for a = 100); and get_altitude() is a multiple of 30 for every
\* cached blob.
C26_AltitudeQuantised ==
    /\ HasState(state_data) => get_altitude(state_data) % 30 = 0
    /\ (pc["user"] \in WritePcs /\ op["user"].name = "set_altitude")
          => LET q == AltitudeBytes(pend["user"])
             IN  /\ NearestStep(q, op["user"].a)
                 /\ B(pend["user"], 2) = q % 256
                 /\ B(pend["user"], 3) = 128 + ((q \div 256) % 128)
    /\ (Done("user") /\ op["user"].name = "set_altitude" /\ res["user"] = "ok")
          => /\ get_altitude(state_data) = AltitudeBytes(state_data)
             /\ NearestStep(get_altitude(state_data), op["user"].a)
             /\ op["user"].a = 100 => get_altitude(state_data) = 90

\* set_altitude(100) has completed on a device that held 3020
C26_Witness ==
    /\ Done("user")
    /\ op["user"].name = "set_altitude"
    /\ op["user"].a = 100
    /\ res["user"] = "ok"
    /\ AltitudeBytes(pre["user"]) = 3020
    /\ get_altitude(state_data) = 90
    /\ B(state_data, 2) = 90 /\ B(state_data, 3) = 128

\* C27: when async_write_kettle returns normally, the value it hands to its
\* caller is the device state its closing read obtained.
C27_ReturnsRefreshedState ==
    [][(pc["setter"] = "read" /\ pc'["setter"] = "idle" /\ res'["setter"] = "ok")
        => HasState(result') /\ result' = dev]_vars

\* C28: every blob a set_hold_time call puts on the wire, and the cache
\* after the call has succeeded, hold 0, 15, 30, 45 or 60 in byte 13.
C28_HoldTimeSteps ==
    op["user"].name = "set_hold_time"
        => /\ pc["user"] \in WritePcs => B(pend["user"], 13) \in {0, 15, 30, 45, 60}
           /\ (Done("user") /\ res["user"] = "ok")
                 => B(state_data, 13) \in {0, 15, 30, 45, 60}

\* C29: the target temperature is twice the Celsius value in byte 4: a
\* cached blob with byte 4 = b decodes to b / 2 (45.0 for 90); for t in
\* 0..100 in half-degree steps set_target_temperature(t) puts byte 4 = 2t on
\* the wire, and get_target_temperature() after the write returns t.
\* (Temperatures are in tenths of a degree.)
C29_TargetTemperatureCodec ==
    /\ HasState(state_data)
          => /\ 2 * get_target_temperature(state_data) = 10 * B(state_data, 4)
             /\ B(state_data, 4) = 90 => get_target_temperature(state_data) = 450
    /\ (pc["user"] \in WritePcs /\ op["user"].name = "set_target_temperature")
          => /\ 10 * B(pend["user"], 4) = 2 * op["user"].c
             /\ op["user"].c = 450 => B(pend["user"], 4) = 90
    /\ (Done("user") /\ op["user"].name = "set_target_temperature"
          /\ res["user"] = "ok")
          => get_target_temperature(state_data) = op["user"].c

\* set_target_temperature(45.5) has completed on a device that held 45.0
C29_Witness ==
    /\ Done("user")
    /\ op["user"].name = "set_target_temperature"
    /\ op["user"].c = 455
    /\ res["user"] = "ok"
    /\ B(pre["user"], 4) = 90
    /\ B(state_data, 4) = 91
    /\ get_target_temperature(state_data) = 455

\* C30: the schedule the Trigger step writes carries the temperature the
\* caller supplied, for every supplied value (0 included), and the cached
\* target temperature (byte 4 / 2) when the caller supplied none (-1).
C30_TriggerUsesSuppliedTemp ==
    /\ []((stage["user"] = "trigger" /\ pc["user"] = "s_write")
            => B(pend["user"], 6) = TempByte(op["user"].c))
    /\ [][/\ \A temp \in SmartTemps :
               (UserTurnOnSmart(temp) /\ stage'["user"] = "trigger")
                  => op'["user"].c = (IF temp # -1 THEN temp
                                     ELSE HalfDegrees(B(state_data, 4)))
          /\ (pc["user"] = "t_refresh" /\ stage'["user"] = "trigger")
               => op'["user"].c = (IF op["user"].c # -1 THEN op["user"].c
                                  ELSE HalfDegrees(B(dev, 4)))]_vars

\* C31: _retry_count counts the failed polls since the last successful one:
\* it returns to 0 only in the step that completes a poll successfully, and
\* otherwise changes only by growing by one in the step in which a poll
\* fails, at connect or at its read.
C31_RetryCountsFailedPolls ==
    [][/\ (retry_count' # retry_count /\ retry_count' = 0)
            => /\ pc["poll"] = "read"
               /\ pc'["poll"] = "idle"
               /\ res'["poll"] = "ok"
       /\ (retry_count' # retry_count /\ retry_count' # 0)
            => /\ retry_count' = retry_count + 1
               /\ pc'["poll"] \in {"idle", "disc"}
               /\ res'["poll"] = "UpdateFailed"
       /\ (pc["poll"] \in IOpcs \ {"disc"} /\ nfail' # nfail)
            => retry_count' = retry_count + 1]_vars

NonScheduleSetters ==
    {"set_target_temperature", "set_units", "set_clock_mode", "set_clock_time",
     "set_chime_volume", "set_pre_boil", "set_hold_time", "set_altitude",
     "set_language"}

\* C32: after a successful call of a setter other than set_schedule,
\* get_schedule() on the cache reports what it reported on the cache the
\* call started from: enabled flag, mode, hour, minute and temperature.
C32_ScheduleUntouched ==
    (/\ Done("user")
     /\ op["user"].name \in NonScheduleSetters
     /\ res["user"] = "ok"
     /\ HasState(pre["user"]))
    => get_schedule(state_data) = get_schedule(pre["user"])

\* the entities' setter calls and a clock time outside 0..23 hours
RejectOps ==
    CoordOps \cup {MkOp("set_clock_time", "", 24, 0, 0)}

\* the coordinator serving write calls whose arguments a setter may reject
NextReject ==
    \/ async_update_data
    \/ \E o \in RejectOps : async_write_kettle(o)
    \/ async_shutdown
    \/ \E t \in Tasks : ConnectLinkDone(t)
    \/ \E t \in Tasks : ConnectNotifyDone(t)
    \/ \E t \in Tasks : ConnectReadDone(t)
    \/ \E t \in Tasks : ReadDone(t)
    \/ \E t \in Tasks : DisconnectDone(t)
    \/ \E t \in Tasks : SetterWrite1Done(t)
    \/ \E t \in Tasks : SetterPauseDone(t)
    \/ \E t \in Tasks : SetterWriteDone(t)
    \/ handle_notification

SpecReject == Init /\ [][NextReject]_vars

\* C33: the step in which a setter running inside async_write_kettle rejects
\* its arguments with ValueError leaves _connected as it was and starts no
\* disconnect of the link.
C33_RejectionKeepsConnection ==
    [][(/\ pc'["setter"] # pc["setter"] \/ nset' # nset
        /\ res'["setter"] = "ValueError")
         => /\ connected' = connected
            /\ pc'["setter"] # "disc"
            /\ link' = link]_vars

\* C34: whenever the cache holds a blob, _counter equals its byte 16, in
\* every state between two steps of the tasks; and the step in which a write
\* fails leaves the cached blob and _counter as they were.
C34_CounterMatchesCache ==
    /\ [](HasState(state_data) => counter = B(state_data, 16))
    /\ [][\A t \in Tasks :
            (/\ pc[t] \in WritePcs
             /\ pc'[t] # pc[t]
             /\ nfail' # nfail \/ ~LinkUp(t))
              => /\ res'[t] = "WriteError"
                 /\ state_data' = state_data
                 /\ counter' = counter]_vars

\* after a notification, the first write of a two-step schedule change went
\* through and the second one failed; nothing has been read since
C34_Witness ==
    /\ nnotif = 1
    /\ res["setter"] = "WriteError"
    /\ Len(writes["setter"]) = 2
    /\ nw = 1
    /\ counter = B(state_data, 16)
    /\ state_data = writes["setter"][1]

\* C35: when a write of the smart turn-on sequence and a write of a setter
\* call made through async_write_kettle are on the wire together, their
\* blobs carry different counters; and the write that completes changes, in
\* the cache, only the bytes its own call targets and byte 16, so the other
\* write's change stays.
C35_OverlappingWritesKept ==
    /\ [](\A t \in SmartTasks :
            (pc[t] \in WritePcs /\ pc["setter"] \in WritePcs)
              => B(pend[t], 16) # B(pend["setter"], 16))
    /\ [][\A t \in SmartTasks \cup {"setter"} :
            (pc[t] \in WritePcs /\ pc'[t] # pc[t] /\ state_data' = pend[t])
              => OnlyTargetChanged(op[t], state_data, state_data')]_vars

\* C36: a set_schedule call with mode ONCE or DAILY, an hour in 0..23 and a
\* minute in 0..59 never ends in a ValueError, whatever byte 16 of the cache
\* is; when it raised nothing its last write is the enable write.
C36_ScheduleNeverValueError ==
    (/\ Done("user")
     /\ op["user"].name = "set_schedule"
     /\ op["user"].m \in {"ONCE", "DAILY"}
     /\ op["user"].a \in 0..23
     /\ op["user"].b \in 0..59)
    => /\ res["user"] # "ValueError"
       /\ res["user"] = "ok" =>
             /\ writes["user"] # <<>>
             /\ Bit(B(writes["user"][Len(writes["user"])], 0), 3) = 1

\* C37: when a set_schedule call has raised, get_schedule() on the cache and
\* the schedule stored on the device are what the cache held when the call
\* began; a failed enable step does not leave the schedule switched off.
C37_FailedScheduleChangesNothing ==
    (/\ Done("user")
     /\ op["user"].name = "set_schedule"
     /\ res["user"] \in TransportErrors \cup {"ValueError"}
     /\ HasState(pre["user"]))
    => /\ get_schedule(state_data) = get_schedule(pre["user"])
       /\ get_schedule(dev) = get_schedule(pre["user"])

\* sequences the two entities may start between them
MaxPair == 2

\* async_turn_on of one entity, the other entity's sequence possibly running
async_turn_on_pair(t) ==
    /\ t \in SmartTasks
    /\ pc[t] = "idle"
    /\ data # NoData
    /\ nsmart < MaxPair
    /\ nsmart' = nsmart + 1
    /\ Apply(t, [K0(t) EXCEPT !.pc = "created", !.is_on = TRUE])
    /\ UNCHANGED <<dev0, nfail, sessvars, op, stage, bk, ncalls, nset, nnotif>>

\* the power switch's and the water heater's sequences beside the poll
NextPair ==
    \/ async_update_data
    \/ \E t \in SmartTasks : async_turn_on_pair(t)
    \/ \E t \in SmartTasks : turn_on_smart(t)
    \/ \E t \in SmartTasks : DwellDone(t)
    \/ \E t \in Tasks : ConnectLinkDone(t)
    \/ \E t \in Tasks : ConnectNotifyDone(t)
    \/ \E t \in Tasks : ConnectReadDone(t)
    \/ \E t \in Tasks : ReadDone(t)
    \/ \E t \in Tasks : DisconnectDone(t)
    \/ \E t \in Tasks : SetterWrite1Done(t)
    \/ \E t \in Tasks : SetterPauseDone(t)
    \/ \E t \in Tasks : SetterWriteDone(t)

SpecPair == Init /\ [][NextPair]_vars

\* sequence u started on the schedule the device had at first, and sequence
\* t started while u's trigger schedule (one minute after the device clock)
\* was in the cache: after u's Trigger write, before its Restore write returned
StartedInDwell(t, u) ==
    /\ stage[u] # ""
    /\ bk[u] = get_schedule(dev0)
    /\ stage[t] # ""
    /\ bk[t] # bk[u]
    /\ bk[t].schedule_enabled
    /\ <<bk[t].schedule_hour, bk[t].schedule_minute>>
          = OneMinuteLater(B(dev0, 11), B(dev0, 10))

\* C38: when one entity's sequence starts while the other entity's sequence
\* is in its dwell, then once both have returned normally the schedule in
\* the cache and on the device is the one of before the first sequence.
C38_SecondSequenceRestoresOriginal ==
    \A t \in SmartTasks : \A u \in SmartTasks \ {t} :
        (StartedInDwell(t, u) /\ SmartDone(t) /\ SmartDone(u))
            => /\ get_schedule(state_data) = get_schedule(dev0)
               /\ get_schedule(dev) = get_schedule(dev0)

\* the Restore write of sequence t returns in this step and ends the sequence
RestoreCompletes(t) ==
    /\ stage[t] = "restore"
    /\ pc[t] \in WritePcs
    /\ pc'[t] = "done"
    /\ res'[t] = "ok"

\* the schedule sd without its mode
ScheduleButMode(sch) == [sch EXCEPT !.schedule_mode = ""]

\* C39: the backup of a sequence does not change once taken; Restore calls
\* set_schedule with the backup's values, whatever the cache holds after the
\* dwell; and when the Restore write returns, the schedule in the cache and
\* on the device is the backup, a change made during the dwell being gone.
C39_RestoreWritesBackup ==
    [][\A t \in SmartTasks :
        /\ stage[t] # "" => bk'[t] = bk[t]
        /\ (pc[t] = "dwell" /\ pc'[t] # "dwell")
              => op'[t] = RestoreOp(bk[t])
        /\ RestoreCompletes(t)
              => /\ get_schedule(state_data') = bk[t]
                 /\ get_schedule(dev') = bk[t]]_vars

\* the same without the mode
RestoreWritesBackupButMode ==
    [][\A t \in SmartTasks :
        /\ stage[t] # "" => bk'[t] = bk[t]
        /\ (pc[t] = "dwell" /\ pc'[t] # "dwell")
              => op'[t] = RestoreOp(bk[t])
        /\ RestoreCompletes(t)
              => /\ ScheduleButMode(get_schedule(state_data')) = ScheduleButMode(bk[t])
                 /\ ScheduleButMode(get_schedule(dev')) = ScheduleButMode(bk[t])]_vars

\* failed polls in a row while the kettle is out of reach
MaxOutages == 3

\* a transport call of a poll raises: the kettle is out of reach
PollFault ==
    /\ pc["poll"] \in ConnectPcs \cup {"read"}
    /\ retry_count < MaxOutages
    /\ UNCHANGED <<sessvars, nfail>>
    /\ Apply("poll", IF pc["poll"] = "read"
                     THEN Raise("poll", K0("poll"), "ReadError", link)
                     ELSE ConnectFailed("poll", K0("poll"), link))
    /\ UNCHANGED <<dev0, callvars>>

\* the running coordinator: polls, write-through calls, notifications, and
\* outages of any length
NextReconnect ==
    \/ async_update_data
    \/ \E o \in CoordOps : async_write_kettle(o)
    \/ PollFault
    \/ \E t \in Tasks : ConnectLinkDone(t)
    \/ \E t \in Tasks : ConnectNotifyDone(t)
    \/ \E t \in Tasks : ConnectReadDone(t)
    \/ \E t \in Tasks : ReadDone(t)
    \/ \E t \in Tasks : DisconnectDone(t)
    \/ \E t \in Tasks : SetterWrite1Done(t)
    \/ \E t \in Tasks : SetterPauseDone(t)
    \/ \E t \in Tasks : SetterWriteDone(t)
    \/ handle_notification

\* an awaited call of task t returns or raises
Returns(t) ==
    \/ ConnectLinkDone(t)
    \/ ConnectNotifyDone(t)
    \/ ConnectReadDone(t)
    \/ ReadDone(t)
    \/ DisconnectDone(t)
    \/ SetterWrite1Done(t)
    \/ SetterPauseDone(t)
    \/ SetterWriteDone(t)

\* Home Assistant starts a poll every UPDATE_INTERVAL seconds, the lock is
\* handed on in turn, and every awaited call comes back
SpecReconnect ==
    /\ Init
    /\ [][NextReconnect]_vars
    /\ WF_vars(async_update_data)
    /\ \A t \in CoordCalls : WF_vars(Returns(t))

\* a call of the coordinator ends in an exception in this step
OperationFails ==
    \E t \in CoordCalls :
        /\ res'[t] \notin {"", "ok"}
        /\ pc'[t] # pc[t] \/ res'[t] # res[t] \/ nset' # nset \/ nfail' # nfail

\* C40: when from some point on no call of the coordinator fails, with polls
\* started again and again, the coordinator becomes available and stays so;
\* a poll in which nothing fails ends with available true; available turns
\* false only in a step in which a call fails; and while available is false
\* a poll can start whenever the lock is free, whatever _retry_count is.
C40_ReconnectsWhileUnavailable ==
    /\ (<>[][~OperationFails]_vars) => <>[]connected
    /\ [][/\ (pc["poll"] # "idle" /\ pc'["poll"] = "idle" /\ ~OperationFails)
               => connected' /\ res'["poll"] = "ok"
          /\ (connected /\ ~connected') => OperationFails]_vars
    /\ []((~connected /\ lock = "free" /\ pc["poll"] = "idle")
            => ENABLED async_update_data)

\* after MAX_RETRIES failed polls a further poll has connected and subscribed
\* and is at its initial read
C40_Witness ==
    /\ retry_count >= MAX_RETRIES
    /\ pc["poll"] = "c_read"
    /\ link = "open"
    /\ notify
    /\ ~connected

====
